---- MODULE Spec2Model ----
(***************************************************************************)
(* A model of text-to-column-webui: the filename decomposer, the alias     *)
(* and template resolver, the template autodetector and the result         *)
(* aggregators of src/text_to_column/parser.py, src/parse_to_csv.py and    *)
(* src/webapp/main.py.                                                      *)
(*                                                                         *)
(* A Python str is a sequence of one-character strings; a Python dict is   *)
(* a sequence of <<key, value>> pairs in insertion order.                  *)
(***************************************************************************)
EXTENDS Integers, Sequences, FiniteSets, TLC

VARIABLES
    pc,            \* position of the running operation
    platform_map,  \* the catalog of the platform: <<command key, template name>> pairs
    stem,          \* filename_stem
    cmd_prefixes,  \* the list build_command_prefixes returned
    split,         \* what split_command_and_hostname returned
    aliases,       \* config.json's platform_aliases: raw platform -> resolved platform
    mapping,       \* mapping.json: resolved platform -> catalog
    platform_dirs, \* sorted(platform_dirs): the folder names the batch walks
    d,             \* the index in platform_dirs of the folder being processed
    resolved_platform, \* aliases.get(folder_platform, folder_platform)
    files,         \* sorted(platform_dir.glob("*.txt")): the file names of the folder
    idx,           \* the index in files of the next file
    per_cmd,       \* per_cmd: cmd_part -> list of rows
    written,       \* written: the output names so far
    csv_out,       \* the CSV files the current folder's iteration wrote
    platform,      \* the platform a request or call names (a folder name, before aliases)
    command,       \* the command a request or call names
    engine,        \* template name -> what parse_with_template does with it on the raw text
    max_templates, \* autodetect_command's max_templates
    it,            \* the index in platform_map of the entry autodetect_command's loop is at
    tried,         \* autodetect_command's tried
    best,          \* autodetect_command's best
    calls,         \* the templates parse_with_template was called with, in order
    result,        \* what the call returned or raised
    request,       \* the rest of a ParseRequest: text size, output, autodetect
    response,      \* the handler's HTTP response
    filename,      \* the name of an uploaded file
    uploads,       \* files: the uploads of a batch request
    autodetect,    \* the batch request's autodetect flag
    batch_mode,    \* the batch request's batch_mode
    up,            \* the position of `for up in files`
    combined,      \* combined: (platform_resolved, template) -> headers and rows
    summary,       \* summary: one entry per upload the loop is through with
    zip,           \* the CSV members written to the archive
    outputs        \* outputs: one entry per combined CSV

decompVars == <<platform_map, stem, cmd_prefixes, split>>
configVars == <<aliases, mapping>>
folderVars == <<platform_dirs, d, resolved_platform, files, idx, per_cmd, written, csv_out>>

autoVars == <<engine, max_templates, it, tried, best, calls>>
batchVars == <<uploads, autodetect, batch_mode, up, combined, summary, zip, outputs>>

webVars == <<platform, command, autoVars, result, request, response, filename, batchVars>>

vars == <<pc, decompVars, configVars, folderVars, webVars>>

----------------------------------------------------------------------------
(* Characters and strings *)

\* ord(c) for the characters the model uses
Ord(c) ==
    CASE c = "\t" -> 9
      [] c = " " -> 32
      [] c = "." -> 46
      [] c = "/" -> 47
      [] c = "A" -> 65
      [] c = "B" -> 66
      [] c = "C" -> 67
      [] c = "H" -> 72
      [] c = "_" -> 95
      [] c = "a" -> 97
      [] c = "b" -> 98
      [] c = "c" -> 99
      [] c = "e" -> 101
      [] c = "h" -> 104
      [] c = "m" -> 109
      [] c = "n" -> 110
      [] c = "o" -> 111
      [] c = "p" -> 112
      [] c = "q" -> 113
      [] c = "r" -> 114
      [] c = "s" -> 115
      [] c = "t" -> 116
      [] c = "v" -> 118
      [] c = "x" -> 120

\* str.lower() on one character
LowerChar(c) ==
    CASE c = "A" -> "a"
      [] c = "B" -> "b"
      [] c = "C" -> "c"
      [] c = "H" -> "h"
      [] c = "S" -> "s"
      [] c = "V" -> "v"
      [] OTHER -> c

\* str.lower()
Lower(s) == [i \in 1..Len(s) |-> LowerChar(s[i])]

\* str.isspace() on one character
IsSpace(c) == c \in {" ", "\t"}

\* s[n:] with n >= 0
DropFirst(s, n) == SubSeq(s, n + 1, Len(s))

\* s.startswith(p)
StartsWith(s, p) == Len(p) <= Len(s) /\ SubSeq(s, 1, Len(p)) = p

\* str.strip(): leading and trailing whitespace removed
RECURSIVE LStrip(_)
LStrip(s) == IF s # <<>> /\ IsSpace(Head(s)) THEN LStrip(Tail(s)) ELSE s

RECURSIVE RStrip(_)
RStrip(s) ==
    IF s # <<>> /\ IsSpace(s[Len(s)]) THEN RStrip(SubSeq(s, 1, Len(s) - 1)) ELSE s

Strip(s) == RStrip(LStrip(s))

\* s.replace(" ", "_"): every single space becomes one underscore
RECURSIVE ReplaceSpaceMut(_)
ReplaceSpaceMut(s) ==
    IF s = <<>> THEN <<>>
    ELSE IF Head(s) # " " THEN <<Head(s)>> \o ReplaceSpaceMut(Tail(s))
    ELSE IF Len(s) > 1 /\ s[2] = " " THEN ReplaceSpaceMut(Tail(s))
    ELSE <<"_">> \o ReplaceSpaceMut(Tail(s))

ReplaceSpace(s) == [i \in 1..Len(s) |-> IF s[i] = " " THEN "_" ELSE s[i]]

\* a < b for two str: lexicographic by code point
RECURSIVE LessStr(_, _)
LessStr(a, b) ==
    IF a = <<>> THEN b # <<>>
    ELSE IF b = <<>> THEN FALSE
    ELSE IF Head(a) = Head(b) THEN LessStr(Tail(a), Tail(b))
    ELSE Ord(Head(a)) < Ord(Head(b))

\* sorted(S) for a collection of distinct str
RECURSIVE Sorted(_)
Sorted(S) ==
    IF S = {} THEN <<>>
    ELSE LET m == CHOOSE x \in S : \A y \in S \ {x} : LessStr(x, y)
         IN <<m>> \o Sorted(S \ {m})

Range(s) == {s[i] : i \in 1..Len(s)}

\* the keys of a dict, in insertion order
DictKeys(dict) == [i \in 1..Len(dict) |-> dict[i][1]]

DictHas(dict, k) == \E i \in 1..Len(dict) : dict[i][1] = k

\* dict[k] = v: an existing key keeps its place, a new key goes last
DictSet(dict, k, v) ==
    IF DictHas(dict, k)
    THEN [i \in 1..Len(dict) |-> IF dict[i][1] = k THEN <<k, v>> ELSE dict[i]]
    ELSE Append(dict, <<k, v>>)

\* Path(filename).name: the text behind the last "/"
RECURSIVE PathName(_)
PathName(fname) ==
    IF \E i \in 1..Len(fname) : fname[i] = "/"
    THEN PathName(DropFirst(fname,
                            CHOOSE i \in 1..Len(fname) : fname[i] = "/"))
    ELSE fname

\* Path(filename).stem: the name up to its last ".", unless that "." is the
\* name's first or last character
PathStem(fname) ==
    LET name == PathName(fname)
        dots == {i \in 1..Len(name) : name[i] = "."}
        last == CHOOSE i \in dots : \A j \in dots : j <= i
    IN IF dots # {} /\ 1 < last /\ last < Len(name)
       THEN SubSeq(name, 1, last - 1)
       ELSE name

----------------------------------------------------------------------------
(* build_command_prefixes and split_command_and_hostname *)

\* k.strip().lower().replace(" ", "_")
CommandPrefix(k) == ReplaceSpace(Lower(Strip(k)))

\* where a stable sort by descending length puts x among the already sorted
\* items: behind every item at least as long
RECURSIVE InsertByLenMut(_, _)
InsertByLenMut(sorted, x) ==
    IF sorted = <<>> THEN <<x>>
    ELSE IF Len(Head(sorted)[1]) <= Len(x[1])
         THEN <<Head(sorted)>> \o InsertByLenMut(Tail(sorted), x)
         ELSE <<x>> \o sorted

RECURSIVE InsertByLen(_, _)
InsertByLen(sorted, x) ==
    IF sorted = <<>> THEN <<x>>
    ELSE IF Len(Head(sorted)[1]) >= Len(x[1])
         THEN <<Head(sorted)>> \o InsertByLen(Tail(sorted), x)
         ELSE <<x>> \o sorted

\* items.sort(key=lambda x: len(x[0]), reverse=True): stable
RECURSIVE SortByLenDesc(_)
SortByLenDesc(items) ==
    IF items = <<>> THEN <<>>
    ELSE InsertByLen(SortByLenDesc(SubSeq(items, 1, Len(items) - 1)),
                     items[Len(items)])

build_command_prefixes(pm) ==
    SortByLenDesc([i \in 1..Len(pm) |-> <<CommandPrefix(pm[i][1]), pm[i][1]>>])

\* the None of split_command_and_hostname
NoSplit == [matched |-> FALSE, cmd_prefix |-> <<>>, hostname |-> <<>>, orig_key |-> <<>>]

\* hostname = filename_stem[len(cmd_prefix) + 1:]
HostnameOfMut(filename_stem, cmd_prefix) ==
    DropFirst(Lower(filename_stem), Len(cmd_prefix) + 1)

HostnameOf(filename_stem, cmd_prefix) ==
    DropFirst(filename_stem, Len(cmd_prefix) + 1)

\* the for loop of split_command_and_hostname, from entry i on
RECURSIVE SplitFrom(_, _, _)
SplitFrom(filename_stem, prefixes, i) ==
    IF i > Len(prefixes) THEN NoSplit
    ELSE IF StartsWith(Lower(filename_stem), prefixes[i][1] \o <<"_">>)
         THEN [matched |-> TRUE,
               cmd_prefix |-> prefixes[i][1],
               hostname |-> HostnameOf(filename_stem, prefixes[i][1]),
               orig_key |-> prefixes[i][2]]
         ELSE SplitFrom(filename_stem, prefixes, i + 1)

split_command_and_hostname(filename_stem, prefixes) ==
    SplitFrom(filename_stem, prefixes, 1)

----------------------------------------------------------------------------
(* The inputs of the filename decomposer *)

MaxCmds == 3
MaxStemLen == 5

StemChars == {"a", "A", "_"}

\* templates of the catalogs
TplA == <<"a", ".", "t">>
TplB == <<"b", ".", "t">>

\* command keys: a command, its sub-commands, keys that differ in case or in
\* surrounding and inner whitespace only
SplitKeys ==
    { <<"a">>, <<"a", " ", "a">>, <<"A", " ", "a">>, <<" ", "a">>,
      <<"a", " ", " ", "a">>, <<" ">> }

\* the sequences over S of length at most n
RECURSIVE SeqsUpTo(_, _)
SeqsUpTo(S, n) ==
    IF n = 0 THEN {<<>>}
    ELSE LET shorter == SeqsUpTo(S, n - 1)
         IN shorter \cup {Append(s, x) : s \in {t \in shorter : Len(t) = n - 1}, x \in S}

NoDup(s) == \A i, j \in 1..Len(s) : i # j => s[i] # s[j]

\* a JSON object: its keys are distinct
SplitCatalogs ==
    { [i \in 1..Len(ks) |-> <<ks[i], TplA>>] :
        ks \in {s \in SeqsUpTo(SplitKeys, MaxCmds) : s # <<>> /\ NoDup(s)} }

Stems == SeqsUpTo(StemChars, MaxStemLen)

\* the variables of the folder batch while another operation runs
FolderIdle ==
    /\ platform_dirs = <<>>
    /\ d = 0
    /\ resolved_platform = <<>>
    /\ files = <<>>
    /\ idx = 0
    /\ per_cmd = <<>>
    /\ written = <<>>
    /\ csv_out = <<>>

ConfigIdle ==
    /\ aliases = <<>>
    /\ mapping = <<>>

\* what a call holds before it returned or raised
NoResult == [ok |-> FALSE, exc |-> "", msg |-> <<>>, value |-> <<>>]

\* no request was read, no response sent
NoRequest == [text_len |-> 0, output |-> "json", autodetect |-> FALSE]
NoResponse == [status |-> 0, detail |-> <<>>, body |-> <<>>]

\* the None of autodetect_command's best
NoBest == [found |-> FALSE, command |-> <<>>, template |-> <<>>, rows |-> 0, cols |-> 0]

\* the variables of autodetect_command while another operation runs
AutoIdle ==
    /\ engine = <<>>
    /\ max_templates = 0
    /\ it = 0
    /\ tried = 0
    /\ best = NoBest
    /\ calls = <<>>

\* no batch request was read
BatchIdle ==
    /\ uploads = <<>>
    /\ autodetect = FALSE
    /\ batch_mode = <<>>
    /\ up = 0
    /\ combined = <<>>
    /\ summary = <<>>
    /\ zip = <<>>
    /\ outputs = <<>>

\* the variables of the request handlers while the folder batch runs
WebIdle ==
    /\ platform = <<>>
    /\ command = <<>>
    /\ AutoIdle
    /\ result = NoResult
    /\ request = NoRequest
    /\ response = NoResponse
    /\ filename = <<>>
    /\ BatchIdle

InitSplit ==
    /\ pc = "start"
    /\ platform_map \in SplitCatalogs
    /\ stem \in Stems
    /\ cmd_prefixes = <<>>
    /\ split = NoSplit
    /\ ConfigIdle
    /\ FolderIdle
    /\ WebIdle

\* cmd_prefixes = build_command_prefixes(platform_map)
BuildPrefixes ==
    /\ pc = "start"
    /\ cmd_prefixes' = build_command_prefixes(platform_map)
    /\ pc' = "built"
    /\ UNCHANGED <<platform_map, stem, split, configVars, folderVars, webVars>>

\* split = split_command_and_hostname(stem, cmd_prefixes)
SplitStem ==
    /\ pc = "built"
    /\ split' = split_command_and_hostname(stem, cmd_prefixes)
    /\ pc' = "split"
    /\ UNCHANGED <<platform_map, stem, cmd_prefixes, configVars, folderVars, webVars>>

NextDecompose == BuildPrefixes \/ SplitStem

SpecSplit == InitSplit /\ [][NextDecompose]_vars

----------------------------------------------------------------------------
(* The matching engine and the CSV writer *)

HOSTNAME == <<"h", "o", "s", "t", "n", "a", "m", "e">>

DictGet(dict, k) == dict[CHOOSE i \in 1..Len(dict) : dict[i][1] = k][2]

\* aliases.get(platform, platform)
ResolveAliasMut(al, raw) ==
    IF raw \in DOMAIN al THEN al[raw] ELSE <<>>

ResolveAlias(al, raw) ==
    IF raw \in DOMAIN al THEN al[raw] ELSE raw

\* mapping.get(resolved, {})
CatalogOf(mp, resolved) ==
    IF resolved \in DOMAIN mp THEN mp[resolved] ELSE <<>>

Digit(n) == <<"0", "1", "2", "3", "4", "5", "6", "7", "8", "9">>[n + 1]

\* the text the engine captured for column i of its row r
Cell(r, i) == <<Digit(r), Digit(i)>>

\* {headers[i].lower(): row[i] for i in range(len(headers))}, from column i on
RECURSIVE RowDictFrom(_, _, _, _)
RowDictFrom(headers, r, i, acc) ==
    IF i > Len(headers) THEN acc
    ELSE RowDictFrom(headers, r, i + 1, DictSet(acc, Lower(headers[i]), Cell(r, i)))

\* the rows of parse_with_template when the engine returns n rows under headers
ParsedRows(headers, n) == [r \in 1..n |-> RowDictFrom(headers, r, 1, <<>>)]

\* for k in r: if k != "hostname" and k not in cols: cols.append(k)
RECURSIVE ScanKeysMut(_, _)
ScanKeysMut(cols, keys) ==
    IF keys = <<>> THEN cols
    ELSE ScanKeysMut(IF Head(keys) # HOSTNAME THEN Append(cols, Head(keys)) ELSE cols,
                     Tail(keys))

RECURSIVE ScanKeys(_, _)
ScanKeys(cols, keys) ==
    IF keys = <<>> THEN cols
    ELSE ScanKeys(IF Head(keys) # HOSTNAME /\ Head(keys) \notin Range(cols)
                  THEN Append(cols, Head(keys))
                  ELSE cols,
                  Tail(keys))

\* for r in rows: the scan of r's keys
RECURSIVE ScanRows(_, _)
ScanRows(cols, rows) ==
    IF rows = <<>> THEN cols
    ELSE ScanRows(ScanKeys(cols, DictKeys(Head(rows))), Tail(rows))

\* csv.DictWriter(f, fieldnames).writerow(r) raises ValueError when r holds a
\* key that is no field name; a field name r lacks is written as ""
WriterowRaises(fieldnames, r) == \E k \in Range(DictKeys(r)) : k \notin Range(fieldnames)

\* write_csv(path, rows), and the same loop of parse_folder_to_csv: the field
\* names of the file, its rows, and whether a writerow raised
write_csv(rows) ==
    LET fieldnames == <<HOSTNAME>> \o ScanRows(<<>>, rows)
    IN [fieldnames |-> fieldnames,
        rows |-> rows,
        raised |-> \E i \in 1..Len(rows) : WriterowRaises(fieldnames, rows[i])]

----------------------------------------------------------------------------
(* parse_folder_to_csv and main of parse_to_csv.py: the folder batch *)

MaxFiles == 2
MaxRows == 2

PlatP == <<"p">>
PlatQ == <<"q">>
PlatR == <<"r">>

\* the folders under files/: one with a catalog of its own, an alias of it,
\* and one mapping.json does not know
FolderNames == {PlatP, PlatQ, PlatR}
FolderAliases == [x \in {PlatQ} |-> PlatP]
FolderCatalog == << <<<<"a">>, TplA>>, <<<<"a", " ", "a">>, TplB>> >>
FolderMapping == [x \in {PlatP} |-> FolderCatalog]

TXT == <<".", "t", "x", "t">>
CSV == <<".", "c", "s", "v">>

\* the *.txt files a folder may hold
FolderFiles ==
    { <<"a", "_", "H">> \o TXT, <<"A", "_", "a", "_", "h">> \o TXT,
      <<"a", "_", "a">> \o TXT, <<"b", "_", "h">> \o TXT, <<"a">> \o TXT }

HdrA == <<"A">>
HdrB == <<"B">>
HdrC == <<"C">>
HdrHost == <<"H", "o", "s", "t", "n", "a", "m", "e">>

\* fsm.header of the templates the engine may compile
HeaderLists == { <<HdrA, HdrB>>, <<HdrA, HdrC>>, <<HdrB, HdrA>>, <<HdrHost, HdrA>> }

InitFolder ==
    /\ pc = "dirs"
    /\ aliases = FolderAliases
    /\ mapping = FolderMapping
    /\ platform_dirs \in {Sorted(S) : S \in SUBSET FolderNames \ {{}}}
    /\ d = 1
    /\ resolved_platform = <<>>
    /\ platform_map = <<>>
    /\ cmd_prefixes = <<>>
    /\ stem = <<>>
    /\ split = NoSplit
    /\ files = <<>>
    /\ idx = 0
    /\ per_cmd = <<>>
    /\ written = <<>>
    /\ csv_out = <<>>
    /\ WebIdle

\* the platform loop reaches a folder whose resolved platform has no catalog
SkipPlatform ==
    /\ pc = "dirs"
    /\ d <= Len(platform_dirs)
    /\ LET resolved == ResolveAlias(aliases, platform_dirs[d])
       IN /\ CatalogOf(mapping, resolved) = <<>>
          /\ resolved_platform' = resolved
          /\ platform_map' = <<>>
    /\ d' = d + 1
    /\ UNCHANGED <<pc, stem, cmd_prefixes, split, configVars, webVars, platform_dirs,
                   files, idx, per_cmd, written, csv_out>>

\* the platform loop reaches a folder with a catalog: the prefixes are built
\* and the folder's *.txt files listed
StartPlatform ==
    /\ pc = "dirs"
    /\ d <= Len(platform_dirs)
    /\ LET resolved == ResolveAlias(aliases, platform_dirs[d])
       IN /\ CatalogOf(mapping, resolved) # <<>>
          /\ resolved_platform' = resolved
          /\ platform_map' = CatalogOf(mapping, resolved)
          /\ cmd_prefixes' = build_command_prefixes(CatalogOf(mapping, resolved))
    /\ per_cmd' = <<>>
    /\ \E S \in SUBSET FolderFiles : Cardinality(S) <= MaxFiles /\ files' = Sorted(S)
    /\ idx' = 1
    /\ csv_out' = <<>>
    /\ pc' = "files"
    /\ UNCHANGED <<stem, split, configVars, webVars, platform_dirs, d, written>>

\* the file loop's next file and what it splits into
AtFile == pc = "files" /\ idx <= Len(files)
NextStem == PathStem(files[idx])
NextSplit == split_command_and_hostname(NextStem, cmd_prefixes)

\* one iteration of the file loop that ends in a continue
SkipFileMut ==
    /\ stem' = NextStem
    /\ split' = NextSplit
    /\ idx' = Len(files) + 1
    /\ UNCHANGED <<pc, platform_map, cmd_prefixes, configVars, webVars, platform_dirs, d,
                   resolved_platform, files, per_cmd, written, csv_out>>

SkipFile ==
    /\ stem' = NextStem
    /\ split' = NextSplit
    /\ idx' = idx + 1
    /\ UNCHANGED <<pc, platform_map, cmd_prefixes, configVars, webVars, platform_dirs, d,
                   resolved_platform, files, per_cmd, written, csv_out>>

\* if not split: continue
FileNoMatch == AtFile /\ ~NextSplit.matched /\ SkipFile

\* if not tpl_path.exists(): continue
FileTemplateMissing == AtFile /\ NextSplit.matched /\ SkipFile

\* except Exception: continue
FileParseFails == AtFile /\ NextSplit.matched /\ SkipFile

\* for r in parsed["rows"]: r["hostname"] = hostname; per_cmd[cmd_part].append(r)
AppendRows(pcmd, cmd_part, hostname, rows) ==
    LET tagged == [i \in 1..Len(rows) |-> DictSet(rows[i], HOSTNAME, hostname)]
    IN IF rows = <<>> THEN pcmd
       ELSE IF DictHas(pcmd, cmd_part)
            THEN DictSet(pcmd, cmd_part, DictGet(pcmd, cmd_part) \o tagged)
            ELSE Append(pcmd, <<cmd_part, tagged>>)

\* the file is parsed: the engine returns n rows under one of the header lists
FileParsed ==
    /\ AtFile
    /\ NextSplit.matched
    /\ \E headers \in HeaderLists, n \in 0..MaxRows :
         per_cmd' = AppendRows(per_cmd, NextSplit.cmd_prefix, NextSplit.hostname,
                               ParsedRows(headers, n))
    /\ stem' = NextStem
    /\ split' = NextSplit
    /\ idx' = idx + 1
    /\ UNCHANGED <<pc, platform_map, cmd_prefixes, configVars, webVars, platform_dirs, d,
                   resolved_platform, files, written, csv_out>>

\* out_name = f"{resolved_platform}_{cmd_part}.csv"
OutName(resolved, cmd_part) == resolved \o <<"_">> \o cmd_part \o CSV

\* for cmd_part, rows in sorted(per_cmd.items()): one CSV file each
WriteOutputs ==
    /\ pc = "files"
    /\ idx > Len(files)
    /\ LET parts == Sorted(Range(DictKeys(per_cmd)))
           out == [i \in 1..Len(parts) |->
                     [name |-> OutName(resolved_platform, parts[i]),
                      csv |-> write_csv(DictGet(per_cmd, parts[i]))]]
       IN /\ csv_out' = out
          /\ written' = written \o [i \in 1..Len(out) |-> out[i].name]
          /\ pc' = IF \E i \in 1..Len(out) : out[i].csv.raised THEN "raised" ELSE "dirs"
    /\ d' = d + 1
    /\ UNCHANGED <<decompVars, configVars, webVars, platform_dirs, resolved_platform,
                   files, idx, per_cmd>>

\* return written
FolderDone ==
    /\ pc = "dirs"
    /\ d > Len(platform_dirs)
    /\ pc' = "done"
    /\ UNCHANGED <<decompVars, configVars, folderVars, webVars>>

NextFolder ==
    \/ SkipPlatform
    \/ StartPlatform
    \/ FileNoMatch
    \/ FileTemplateMissing
    \/ FileParseFails
    \/ FileParsed
    \/ WriteOutputs
    \/ FolderDone

SpecFolder == InitFolder /\ [][NextFolder]_vars

----------------------------------------------------------------------------
(* autodetect_command *)

\* max_templates: int = 200
DefaultMaxTemplates == 200

TplC == <<"c", ".", "t">>

\* what the engine does with one template on the raw text: the template file
\* is missing, parse_with_template raises, or it returns rows under headers
EngineMissing == [kind |-> "missing", headers |-> <<>>, nrows |-> 0]
EngineRaises == [kind |-> "raises", headers |-> <<>>, nrows |-> 0]
EngineRows(headers, n) == [kind |-> "rows", headers |-> headers, nrows |-> n]

\* raise KeyError(f"No mapping for platform '{resolved}' (folder '{platform}')")
UnknownPlatform(resolved, raw) ==
    [ok |-> FALSE, exc |-> "KeyError",
     msg |-> [fmt |-> "No mapping for platform '{resolved}' (folder '{platform}')",
              args |-> <<resolved, raw>>],
     value |-> <<>>]

\* raise ValueError(f"Auto-detect could not find a template ... '{resolved}'. ...")
NoMatch(resolved) ==
    [ok |-> FALSE, exc |-> "ValueError",
     msg |-> [fmt |-> "Auto-detect could not find a template that produces rows for platform '{resolved}'. (Tip: ...)",
              args |-> <<resolved>>],
     value |-> <<>>]

Returned(v) == [ok |-> TRUE, exc |-> "", msg |-> <<>>, value |-> v]

\* (candidate.rows, candidate.cols) > (best.rows, best.cols)
BetterMut(candidate, incumbent) ==
    \/ candidate.rows > incumbent.rows
    \/ candidate.rows = incumbent.rows /\ candidate.cols >= incumbent.cols

Better(candidate, incumbent) ==
    \/ candidate.rows > incumbent.rows
    \/ candidate.rows = incumbent.rows /\ candidate.cols > incumbent.cols

\* the locals of the loop: st.at is the entry the loop is at, st.stopped
\* says the loop hit its break
AutoLocals(at, tr, bst, cls, stopped) ==
    [at |-> at, tried |-> tr, best |-> bst, calls |-> cls, stopped |-> stopped]

\* what the loop body does with an entry the engine raises on
OnEngineRaisesMut(st) == [st EXCEPT !.stopped = TRUE]

\* except Exception: continue
OnEngineRaises(st) == st

\* if tried >= max_templates: break
CapReachedMut(tr, cap) == tr > cap

CapReached(tr, cap) == tr >= cap

\* one iteration of `for command, tpl_name in platform_map.items()`
AutoIteration(st, pm, eng, cap) ==
    IF CapReached(st.tried, cap) THEN [st EXCEPT !.stopped = TRUE]
    ELSE
      LET cmd == pm[st.at][1]
          tpl_name == pm[st.at][2]
          out == eng[tpl_name]
          next == [st EXCEPT !.at = @ + 1, !.tried = @ + 1]
          called == [next EXCEPT !.calls = Append(@, tpl_name)]
          candidate == [found |-> TRUE, command |-> cmd, template |-> tpl_name,
                        rows |-> out.nrows, cols |-> Len(out.headers)]
      IN IF out.kind = "missing" THEN next
         ELSE IF out.kind = "raises" THEN OnEngineRaises(called)
         ELSE IF out.nrows <= 0 THEN called
         ELSE IF ~st.best.found THEN [called EXCEPT !.best = candidate]
         ELSE IF Better(candidate, st.best) THEN [called EXCEPT !.best = candidate]
         ELSE called

\* the whole loop, from the locals st on
RECURSIVE AutoLoop(_, _, _, _)
AutoLoop(st, pm, eng, cap) ==
    IF st.stopped \/ st.at > Len(pm) THEN st
    ELSE AutoLoop(AutoIteration(st, pm, eng, cap), pm, eng, cap)

\* if best is None: raise ValueError(...); return best
AutoOutcome(st, resolved) ==
    IF ~st.best.found THEN NoMatch(resolved) ELSE Returned(st.best)

\* autodetect_command(repo_root, platform, raw_text, max_templates=cap)
autodetect_command(mp, al, raw, eng, cap) ==
    LET resolved == ResolveAlias(al, raw)
        pm == CatalogOf(mp, resolved)
    IN IF pm = <<>> THEN UnknownPlatform(resolved, raw)
       ELSE AutoOutcome(AutoLoop(AutoLocals(1, 0, NoBest, <<>>, FALSE), pm, eng, cap),
                        resolved)

\* the inputs of autodetect_command
AutoCatalogs ==
    { << <<<<"a">>, TplA>> >>,
      << <<<<"a">>, TplA>>, <<<<"a", " ", "a">>, TplB>> >>,
      << <<<<"a">>, TplA>>, <<<<"a", " ", "a">>, TplB>>, <<<<"b">>, TplC>> >>,
      << <<<<"a">>, TplA>>, <<<<"a", " ", "a">>, TplB>>, <<<<"b">>, TplA>> >> }

AutoTemplates == {TplA, TplB, TplC}
AutoHeaderLists == { <<HdrA>>, <<HdrA, HdrB>> }
AttemptCaps == {0, 1, 2, DefaultMaxTemplates}

EngineOutcomes ==
    {EngineMissing, EngineRaises}
      \cup {EngineRows(h, n) : h \in AutoHeaderLists, n \in 0..MaxRows}

InitAuto ==
    /\ pc = "call"
    /\ aliases = FolderAliases
    /\ mapping \in {[x \in {PlatP} |-> c] : c \in AutoCatalogs}
    /\ platform \in FolderNames
    /\ command = <<>>
    /\ engine \in [AutoTemplates -> EngineOutcomes]
    /\ max_templates \in AttemptCaps
    /\ platform_map = <<>>
    /\ resolved_platform = <<>>
    /\ it = 0
    /\ tried = 0
    /\ best = NoBest
    /\ calls = <<>>
    /\ result = NoResult
    /\ request = NoRequest
    /\ response = NoResponse
    /\ filename = <<>>
    /\ BatchIdle
    /\ stem = <<>>
    /\ cmd_prefixes = <<>>
    /\ split = NoSplit
    /\ FolderIdle

cliVars == <<stem, cmd_prefixes, split, platform_dirs, d, files, idx, per_cmd,
             written, csv_out>>

\* autodetect_command is entered for a platform without a catalog
AutoUnknownPlatform ==
    /\ pc = "call"
    /\ LET resolved == ResolveAlias(aliases, platform)
       IN /\ CatalogOf(mapping, resolved) = <<>>
          /\ resolved_platform' = resolved
          /\ result' = UnknownPlatform(resolved, platform)
    /\ pc' = "raised"
    /\ UNCHANGED <<platform_map, cliVars, configVars, platform, command, autoVars,
                   request, response, filename, batchVars>>

\* autodetect_command is entered for a platform with a catalog
AutoEnter ==
    /\ pc = "call"
    /\ LET resolved == ResolveAlias(aliases, platform)
       IN /\ CatalogOf(mapping, resolved) # <<>>
          /\ resolved_platform' = resolved
          /\ platform_map' = CatalogOf(mapping, resolved)
    /\ it' = 1
    /\ tried' = 0
    /\ best' = NoBest
    /\ calls' = <<>>
    /\ pc' = "loop"
    /\ UNCHANGED <<cliVars, configVars, platform, command, engine, max_templates, result,
                   request, response, filename, batchVars>>

\* one iteration of the loop, or its break
AutoStep ==
    /\ pc = "loop"
    /\ it <= Len(platform_map)
    /\ LET st == AutoIteration(AutoLocals(it, tried, best, calls, FALSE),
                               platform_map, engine, max_templates)
       IN /\ it' = st.at
          /\ tried' = st.tried
          /\ best' = st.best
          /\ calls' = st.calls
          /\ pc' = IF st.stopped THEN "after" ELSE "loop"
    /\ UNCHANGED <<platform_map, resolved_platform, cliVars, configVars, platform,
                   command, engine, max_templates, result, request, response, filename, batchVars>>

\* the catalog is exhausted
AutoExhausted ==
    /\ pc = "loop"
    /\ it > Len(platform_map)
    /\ pc' = "after"
    /\ UNCHANGED <<platform_map, resolved_platform, cliVars, configVars, webVars>>

\* if best is None: raise ValueError(...); return best
AutoFinish ==
    /\ pc = "after"
    /\ result' = AutoOutcome(AutoLocals(it, tried, best, calls, TRUE), resolved_platform)
    /\ pc' = IF best.found THEN "returned" ELSE "raised"
    /\ UNCHANGED <<platform_map, resolved_platform, cliVars, configVars, platform,
                   command, autoVars, request, response, filename, batchVars>>

NextAuto == AutoUnknownPlatform \/ AutoEnter \/ AutoStep \/ AutoExhausted \/ AutoFinish

SpecAuto == InitAuto /\ [][NextAuto]_vars

----------------------------------------------------------------------------
(* resolve_template_name, parse_text and the handler api_parse *)

\* if len(req.text) > 2_000_000
MaxInputSize == 2000000

\* raise KeyError(f"No mapping for command '{command}' in platform '{resolved}'")
UnknownCommand(cmd, resolved) ==
    [ok |-> FALSE, exc |-> "KeyError",
     msg |-> [fmt |-> "No mapping for command '{command}' in platform '{resolved}'",
              args |-> <<cmd, resolved>>],
     value |-> <<>>]

\* raise FileNotFoundError(f"Template not found: {tpl_path}")
TemplateNotFound(tpl_name) ==
    [ok |-> FALSE, exc |-> "FileNotFoundError",
     msg |-> [fmt |-> "Template not found: {tpl_path}", args |-> <<tpl_name>>],
     value |-> <<>>]

\* whatever parse_with_template raises on a template it cannot compile or apply
EngineError(tpl_name) ==
    [ok |-> FALSE, exc |-> "Exception",
     msg |-> [fmt |-> "{engine's message}", args |-> <<tpl_name>>],
     value |-> <<>>]

\* raise ValueError("command is required unless autodetect=true")
CommandRequired ==
    [ok |-> FALSE, exc |-> "ValueError",
     msg |-> [fmt |-> "command is required unless autodetect=true", args |-> <<>>],
     value |-> <<>>]

resolve_template_name_mut(mp, raw, cmd, al) ==
    LET resolved == ResolveAlias(al, raw)
        pm == CatalogOf(mp, resolved)
    IN IF cmd \notin Range(DictKeys(pm)) THEN UnknownCommand(cmd, resolved)
       ELSE IF pm = <<>> THEN UnknownPlatform(resolved, raw)
       ELSE Returned(DictGet(pm, cmd))

resolve_template_name(mp, raw, cmd, al) ==
    LET resolved == ResolveAlias(al, raw)
        pm == CatalogOf(mp, resolved)
    IN IF pm = <<>> THEN UnknownPlatform(resolved, raw)
       ELSE IF cmd \notin Range(DictKeys(pm)) THEN UnknownCommand(cmd, resolved)
       ELSE Returned(DictGet(pm, cmd))

\* parse_text(repo_root, platform, command, raw_text)
parse_text(mp, al, raw, cmd, eng) ==
    LET tpl == resolve_template_name(mp, raw, cmd, al)
        out == eng[tpl.value]
    IN IF ~tpl.ok THEN tpl
       ELSE IF out.kind = "missing" THEN TemplateNotFound(tpl.value)
       ELSE IF out.kind = "raises" THEN EngineError(tpl.value)
       ELSE Returned([platform_folder |-> raw,
                      platform_resolved |-> ResolveAlias(al, raw),
                      command |-> cmd,
                      template |-> tpl.value,
                      headers |-> [i \in 1..Len(out.headers) |-> Lower(out.headers[i])],
                      rows |-> ParsedRows(out.headers, out.nrows)])

\* the engine calls of parse_text
ParseTextCalls(mp, al, raw, cmd, eng) ==
    LET tpl == resolve_template_name(mp, raw, cmd, al)
    IN IF tpl.ok /\ eng[tpl.value].kind # "missing" THEN <<tpl.value>> ELSE <<>>

\* the engine calls of autodetect_command
AutoCalls(mp, al, raw, eng, cap) ==
    LET pm == CatalogOf(mp, ResolveAlias(al, raw))
    IN IF pm = <<>> THEN <<>>
       ELSE AutoLoop(AutoLocals(1, 0, NoBest, <<>>, FALSE), pm, eng, cap).calls

\* list(dict.fromkeys(headers)): duplicates dropped, order kept
RECURSIVE Dedupe(_)
Dedupe(seq) ==
    IF seq = <<>> THEN <<>>
    ELSE LET front == Dedupe(SubSeq(seq, 1, Len(seq) - 1))
         IN IF seq[Len(seq)] \in Range(front) THEN front ELSE Append(front, seq[Len(seq)])

\* if "hostname" in headers: headers.remove("hostname"); headers = ["hostname"] + headers
HostnameFirst(headers) ==
    IF HOSTNAME \in Range(headers)
    THEN <<HOSTNAME>> \o SelectSeq(headers, LAMBDA h : h # HOSTNAME)
    ELSE headers

\* rows_to_csv(headers, rows)
rows_to_csv(headers, rows) ==
    [fieldnames |-> headers,
     rows |-> rows,
     raised |-> \E i \in 1..Len(rows) : WriterowRaises(headers, rows[i])]

\* str(e): the message, and for a KeyError its repr
StrOfException(e) == [repr |-> e.exc = "KeyError", fmt |-> e.msg.fmt, args |-> e.msg.args]

HttpError(status, detail) == [status |-> status, detail |-> detail, body |-> <<>>]
HttpOk(body) == [status |-> 200, detail |-> <<>>, body |-> body]

InputTooLarge ==
    HttpError(413, [repr |-> FALSE, fmt |-> "Input too large (max 2MB).", args |-> <<>>])

OUTPUT_CSV == <<"c", "s", "v">>

\* len(req.text) > 2_000_000, len(raw_bytes) > 2_000_000
TooLargeMut(size) == size > MaxInputSize + 1

TooLarge(size) == size > MaxInputSize

\* api_parse(req): the response and the engine calls the handler made
api_parse(mp, al, raw, cmd, req, eng) ==
    LET auto == autodetect_command(mp, al, raw, eng, DefaultMaxTemplates)
        autoCalls == IF req.autodetect
                     THEN AutoCalls(mp, al, raw, eng, DefaultMaxTemplates)
                     ELSE <<>>
        use_cmd == IF req.autodetect /\ auto.ok THEN auto.value.command ELSE cmd
        parsed == parse_text(mp, al, raw, use_cmd, eng)
        allCalls == autoCalls \o ParseTextCalls(mp, al, raw, use_cmd, eng)
        headers == HostnameFirst(Dedupe(parsed.value.headers))
        csv == rows_to_csv(headers, parsed.value.rows)
    IN IF TooLarge(req.text_len)
       THEN [response |-> InputTooLarge, calls |-> <<>>]
       ELSE IF req.autodetect /\ ~auto.ok
       THEN [response |-> HttpError(400, StrOfException(auto)), calls |-> autoCalls]
       ELSE IF use_cmd = <<>>
       THEN [response |-> HttpError(400, StrOfException(CommandRequired)),
             calls |-> autoCalls]
       ELSE IF ~parsed.ok
       THEN [response |-> HttpError(400, StrOfException(parsed)), calls |-> allCalls]
       ELSE IF Lower(req.output) = OUTPUT_CSV
       THEN [response |-> IF csv.raised
                          THEN HttpError(500, <<>>)
                          ELSE HttpOk([csv |-> csv, headers |-> headers]),
             calls |-> allCalls]
       ELSE [response |-> HttpOk(parsed.value), calls |-> allCalls]

\* api_autodetect(req): the response and the engine calls the handler made
api_autodetect(mp, al, raw, req, eng) ==
    LET auto == autodetect_command(mp, al, raw, eng, DefaultMaxTemplates)
        autoCalls == AutoCalls(mp, al, raw, eng, DefaultMaxTemplates)
        parsed == parse_text(mp, al, raw, auto.value.command, eng)
        allCalls == autoCalls \o ParseTextCalls(mp, al, raw, auto.value.command, eng)
    IN IF TooLarge(req.text_len)
       THEN [response |-> InputTooLarge, calls |-> <<>>]
       ELSE IF ~auto.ok
       THEN [response |-> HttpError(400, StrOfException(auto)), calls |-> autoCalls]
       ELSE IF ~parsed.ok
       THEN [response |-> HttpError(400, StrOfException(parsed)), calls |-> allCalls]
       ELSE [response |-> HttpOk([parsed |-> parsed.value, autodetect |-> auto.value]),
             calls |-> allCalls]

\* the inputs of the alias resolver: every alias table over three platforms
Platforms == {PlatP, PlatQ, PlatR}
AliasTables == UNION {[D -> Platforms] : D \in SUBSET Platforms}
ResolveCatalogs == {<<>>, FolderCatalog}
Mappings == UNION {[D -> ResolveCatalogs] : D \in SUBSET Platforms}
Commands == {<<>>, <<"a">>, <<"a", " ", "a">>, <<"b">>}

InitResolve ==
    /\ pc = "call"
    /\ aliases \in AliasTables
    /\ mapping \in Mappings
    /\ platform \in Platforms
    /\ command \in Commands \ {<<>>}
    /\ resolved_platform = <<>>
    /\ platform_map = <<>>
    /\ result = NoResult
    /\ request = NoRequest
    /\ response = NoResponse
    /\ filename = <<>>
    /\ BatchIdle
    /\ AutoIdle
    /\ stem = <<>>
    /\ cmd_prefixes = <<>>
    /\ split = NoSplit
    /\ FolderIdle

\* resolve_template_name(mapping, platform, command, aliases=aliases)
ResolveTemplateName ==
    /\ pc = "call"
    /\ resolved_platform' = ResolveAlias(aliases, platform)
    /\ platform_map' = CatalogOf(mapping, ResolveAlias(aliases, platform))
    /\ result' = resolve_template_name(mapping, platform, command, aliases)
    /\ pc' = "resolved"
    /\ UNCHANGED <<cliVars, configVars, platform, command, autoVars, request, response, filename, batchVars>>

\* the resolved platform is handed in as the platform of a second call
ResolveAgain ==
    /\ pc = "resolved"
    /\ platform' = resolved_platform
    /\ resolved_platform' = ResolveAlias(aliases, resolved_platform)
    /\ platform_map' = CatalogOf(mapping, ResolveAlias(aliases, resolved_platform))
    /\ result' = resolve_template_name(mapping, resolved_platform, command, aliases)
    /\ pc' = "again"
    /\ UNCHANGED <<cliVars, configVars, command, autoVars, request, response, filename, batchVars>>

NextResolve == ResolveTemplateName \/ ResolveAgain

SpecResolve == InitResolve /\ [][NextResolve]_vars

\* the inputs of the request handlers
ApiAliases == {[x \in {PlatQ} |-> PlatP], [x \in {PlatQ} |-> PlatR]}
ApiMappings ==
    {[x \in {PlatP} |-> FolderCatalog], [x \in {PlatP} |-> <<>>],
     [x \in {PlatR} |-> FolderCatalog]}
ApiTemplates == {TplA, TplB}
ApiHeaderLists == { <<HdrB, HdrA>>, <<HdrA, HdrHost>> }
ApiOutcomes ==
    {EngineMissing, EngineRaises}
      \cup {EngineRows(h, n) : h \in ApiHeaderLists, n \in 0..MaxRows}
TextSizes == {0, MaxInputSize, MaxInputSize + 1}
Outputs == { <<"j", "s", "o", "n">>, <<"C", "S", "V">> }

InitApi ==
    /\ pc = "request"
    /\ aliases \in ApiAliases
    /\ mapping \in ApiMappings
    /\ platform \in Platforms
    /\ command \in Commands \ {<<"a", " ", "a">>}
    /\ engine \in [ApiTemplates -> ApiOutcomes]
    /\ request \in [text_len : TextSizes, output : Outputs, autodetect : BOOLEAN]
    /\ response = NoResponse
    /\ filename = <<>>
    /\ BatchIdle
    /\ result = NoResult
    /\ max_templates = DefaultMaxTemplates
    /\ it = 0
    /\ tried = 0
    /\ best = NoBest
    /\ calls = <<>>
    /\ resolved_platform = <<>>
    /\ platform_map = <<>>
    /\ stem = <<>>
    /\ cmd_prefixes = <<>>
    /\ split = NoSplit
    /\ FolderIdle

\* parse_text(repo_root, platform, command, raw_text) is called
ParseText ==
    /\ pc = "request"
    /\ result' = parse_text(mapping, aliases, platform, command, engine)
    /\ calls' = ParseTextCalls(mapping, aliases, platform, command, engine)
    /\ pc' = "parsed"
    /\ UNCHANGED <<platform_map, resolved_platform, cliVars, configVars, platform,
                   command, engine, max_templates, it, tried, best, request, response, filename, batchVars>>

\* POST /api/parse
ApiParse ==
    /\ pc = "request"
    /\ LET done == api_parse(mapping, aliases, platform, command, request, engine)
       IN /\ response' = done.response
          /\ calls' = done.calls
    /\ pc' = "responded"
    /\ UNCHANGED <<platform_map, resolved_platform, cliVars, configVars, platform,
                   command, engine, max_templates, it, tried, best, request, result, filename, batchVars>>

\* resolve_template_name is called with the request's platform and command
ApiResolve ==
    /\ pc = "request"
    /\ result' = resolve_template_name(mapping, platform, command, aliases)
    /\ pc' = "resolved"
    /\ UNCHANGED <<platform_map, resolved_platform, cliVars, configVars, platform,
                   command, autoVars, request, response, filename, batchVars>>

\* POST /api/autodetect
ApiAutodetect ==
    /\ pc = "request"
    /\ LET done == api_autodetect(mapping, aliases, platform, request, engine)
       IN /\ response' = done.response
          /\ calls' = done.calls
    /\ pc' = "autodetected"
    /\ UNCHANGED <<platform_map, resolved_platform, cliVars, configVars, platform,
                   command, engine, max_templates, it, tried, best, request, result,
                   filename, batchVars>>

NextApi == ApiResolve \/ ParseText \/ ApiParse \/ ApiAutodetect

SpecApi == InitApi /\ [][NextApi]_vars

----------------------------------------------------------------------------
(* infer_hostname, command_to_slug and infer_hostname_after_command *)

UNDERSCORES == <<"_", "_">>

\* str.split(): the words between runs of whitespace
RECURSIVE Words(_)
Words(s) ==
    LET t == LStrip(s)
        ends == {i \in 1..Len(t) : IsSpace(t[i])}
        n == IF ends = {} THEN Len(t) ELSE (CHOOSE i \in ends : \A j \in ends : i <= j) - 1
    IN IF t = <<>> THEN <<>>
       ELSE <<SubSeq(t, 1, n)>> \o Words(DropFirst(t, n))

\* "_".join(parts)
RECURSIVE JoinUnderscore(_)
JoinUnderscore(parts) ==
    IF parts = <<>> THEN <<>>
    ELSE IF Len(parts) = 1 THEN parts[1]
    ELSE parts[1] \o <<"_">> \o JoinUnderscore(Tail(parts))

\* command_to_slug(command)
command_to_slug(cmd) == JoinUnderscore(Words(Lower(Strip(cmd))))

\* sep in s
Contains(s, sep) == \E i \in 1..(Len(s) - Len(sep) + 1) : SubSeq(s, i, i + Len(sep) - 1) = sep

\* s.split(sep)[-1]: the separators are found from the left, none overlapping
RECURSIVE LastPiece(_, _)
LastPiece(s, sep) ==
    IF ~Contains(s, sep) THEN s
    ELSE LET first == CHOOSE i \in 1..(Len(s) - Len(sep) + 1) :
                         /\ SubSeq(s, i, i + Len(sep) - 1) = sep
                         /\ \A j \in 1..(i - 1) : SubSeq(s, j, j + Len(sep) - 1) # sep
         IN LastPiece(DropFirst(s, first + Len(sep) - 1), sep)

\* Path(filename).stem or filename
StemOrName(name) == IF PathStem(name) # <<>> THEN PathStem(name) ELSE name

\* infer_hostname(filename)
infer_hostname(name) ==
    LET st == StemOrName(name)
    IN IF Contains(st, UNDERSCORES)
       THEN IF LastPiece(st, UNDERSCORES) # <<>> THEN LastPiece(st, UNDERSCORES) ELSE st
       ELSE IF Contains(st, <<"_">>) /\ LastPiece(st, <<"_">>) # <<>>
            THEN LastPiece(st, <<"_">>)
            ELSE st

\* rest.lstrip("_")
LStripUnderscoreMut(s) == IF s # <<>> /\ Head(s) = "_" THEN Tail(s) ELSE s

RECURSIVE LStripUnderscore(_)
LStripUnderscore(s) == IF s # <<>> /\ Head(s) = "_" THEN LStripUnderscore(Tail(s)) ELSE s

\* infer_hostname_after_command(filename, command)
infer_hostname_after_command(name, cmd) ==
    LET st == StemOrName(name)
        slug == command_to_slug(cmd)
        rest == LStripUnderscore(DropFirst(st, Len(slug)))
    IN IF Lower(slug) # <<>> /\ StartsWith(Lower(st), Lower(slug)) /\ rest # <<>>
       THEN rest
       ELSE infer_hostname(name)

\* the inputs of the hostname inference: upload names with and without a
\* suffix, commands with inner and outer whitespace and upper case
NameSuffixes == {<<>>, TXT}
Filenames == {s \o x : s \in Stems, x \in NameSuffixes}
HostCommands ==
    { <<"a">>, <<"A">>, <<"A", " ", "a">>, <<" ", "a", " ", " ", "a">>, <<"a", "\t", "A">>,
      <<"b">>, <<>> }

InitHost ==
    /\ pc = "call"
    /\ filename \in Filenames
    /\ BatchIdle
    /\ command \in HostCommands
    /\ platform = <<>>
    /\ result = NoResult
    /\ request = NoRequest
    /\ response = NoResponse
    /\ AutoIdle
    /\ ConfigIdle
    /\ platform_map = <<>>
    /\ stem = <<>>
    /\ cmd_prefixes = <<>>
    /\ split = NoSplit
    /\ FolderIdle

\* host = infer_hostname_after_command(up.filename or "unknown", use_cmd)
InferAfterCommand ==
    /\ pc = "call"
    /\ result' = Returned(infer_hostname_after_command(filename, command))
    /\ pc' = "inferred"
    /\ UNCHANGED <<platform_map, resolved_platform, cliVars, configVars, platform,
                   command, autoVars, request, response, filename, batchVars>>

\* infer_hostname(up.filename)
InferHostname ==
    /\ pc = "call"
    /\ result' = Returned(infer_hostname(filename))
    /\ pc' = "fallback"
    /\ UNCHANGED <<platform_map, resolved_platform, cliVars, configVars, platform,
                   command, autoVars, request, response, filename, batchVars>>

NextHost == InferAfterCommand \/ InferHostname

SpecHost == InitHost /\ [][NextHost]_vars

----------------------------------------------------------------------------
(* api_batch_parse: POST /api/batch_parse *)

MaxUploads == 2

PER_FILE == <<"p", "e", "r", "_", "f", "i", "l", "e">>
COMBINED == <<"c", "o", "m", "b", "i", "n", "e", "d">>
TEXTFSM == <<".", "t", "e", "x", "t", "f", "s", "m">>
UNKNOWN == <<"u", "n", "k", "n", "o", "w", "n">>
OUTPUT == <<"o", "u", "t", "p", "u", "t">>

\* s.replace(old, new), old not empty
RECURSIVE Replace(_, _, _)
Replace(s, old, new) ==
    IF Len(s) < Len(old) THEN s
    ELSE IF SubSeq(s, 1, Len(old)) = old
         THEN new \o Replace(DropFirst(s, Len(old)), old, new)
         ELSE <<Head(s)>> \o Replace(Tail(s), old, new)

\* (batch_mode or "per_file").strip().lower()
BatchMode(mode) == Lower(Strip(IF mode = <<>> THEN PER_FILE ELSE mode))

NoFilesUploaded == HttpError(400, "No files uploaded")
BadBatchMode == HttpError(400, "batch_mode must be 'per_file' or 'combined'")

FileTooLargeError ==
    [repr |-> FALSE, fmt |-> "Input too large (max 2MB per file).", args |-> <<>>]

\* what csv.DictWriter raises on a row with a key that is no field name
CsvError ==
    [ok |-> FALSE, exc |-> "ValueError",
     msg |-> [fmt |-> "dict contains fields not in fieldnames: {keys}", args |-> <<>>],
     value |-> <<>>]

\* summary.append({"file": ..., "ok": False, "error": ...})
FailedEntry(u, error) ==
    [file |-> u.filename, ok |-> FALSE, error |-> error, hostname |-> <<>>,
     command |-> <<>>, template |-> <<>>, rows |-> 0, out |-> <<>>]

\* summary.append({"file": ..., "ok": True, ...})
OkEntry(u, host, parsed, nrows, out) ==
    [file |-> u.filename, ok |-> TRUE, error |-> <<>>, hostname |-> host,
     command |-> parsed.command, template |-> parsed.template, rows |-> nrows,
     out |-> out]

\* the try block up to parse_text: the command in use and what parse_text
\* returns, or what was raised on the way
ParseUpload(mp, al, raw, cmd, auto, u) ==
    LET detected == autodetect_command(mp, al, raw, u.eng, DefaultMaxTemplates)
        use_cmd == IF auto /\ detected.ok THEN detected.value.command ELSE cmd
    IN IF auto /\ ~detected.ok THEN detected
       ELSE IF use_cmd = <<>> THEN CommandRequired
       ELSE parse_text(mp, al, raw, use_cmd, u.eng)

\* the engine calls of the try block, each with the position of its upload
UploadCalls(mp, al, raw, cmd, auto, u, at) ==
    LET detected == autodetect_command(mp, al, raw, u.eng, DefaultMaxTemplates)
        use_cmd == IF auto /\ detected.ok THEN detected.value.command ELSE cmd
        made == (IF auto THEN AutoCalls(mp, al, raw, u.eng, DefaultMaxTemplates) ELSE <<>>)
                  \o (IF (auto /\ ~detected.ok) \/ use_cmd = <<>> THEN <<>>
                      ELSE ParseTextCalls(mp, al, raw, use_cmd, u.eng))
    IN [i \in 1..Len(made) |-> <<at, made[i]>>]

\* rr = dict(r); rr["hostname"] = host, for every row
WithHostname(rows, host) == [i \in 1..Len(rows) |-> DictSet(rows[i], HOSTNAME, host)]

\* for h in parsed["headers"]: headers.add(h); headers.add("hostname")
TrackHeadersMut(headers, parsed_headers) == Range(parsed_headers) \cup {HOSTNAME}

TrackHeaders(headers, parsed_headers) == headers \cup Range(parsed_headers) \cup {HOSTNAME}

\* the group of key in combined, as `if key not in combined` leaves it
GroupOf(groups, key) ==
    IF DictHas(groups, key) THEN DictGet(groups, key) ELSE [headers |-> {}, rows |-> <<>>]

\* combined after the loop body of a file that parsed
CombineOneMut(groups, parsed, host) ==
    LET key == <<parsed.platform_resolved, parsed.template>>
        group == GroupOf(groups, key)
    IN DictSet(groups, key,
               [headers |-> TrackHeaders(group.headers, parsed.headers),
                rows |-> WithHostname(parsed.rows, host) \o group.rows])

CombineOne(groups, parsed, host) ==
    LET key == <<parsed.platform_resolved, parsed.template>>
        group == GroupOf(groups, key)
    IN DictSet(groups, key,
               [headers |-> TrackHeaders(group.headers, parsed.headers),
                rows |-> group.rows \o WithHostname(parsed.rows, host)])

\* ["hostname"] + sorted([h for h in payload["headers"] if h != "hostname"])
CombinedHeaders(payload) == <<HOSTNAME>> \o Sorted(payload.headers \ {HOSTNAME})

\* the name of a group's CSV in the archive
CombinedOutName(platform_resolved, template) ==
    IF Replace(template, TEXTFSM, CSV) = template
    THEN Replace(platform_resolved \o <<"_">> \o template \o CSV, <<"/">>, <<"_">>)
    ELSE Replace(template, TEXTFSM, CSV)

\* Path(up.filename or "output").stem + ".csv"
PerFileOutName(u) == PathStem(IF u.filename = <<>> THEN OUTPUT ELSE u.filename) \o CSV

\* the inputs of the batch handler: uploads with the engine's outcome on
\* their text under each template
TplF == <<"f">> \o TEXTFSM
BatchCatalog == << <<<<"a">>, TplA>>, <<<<"b">>, TplF>> >>
\* a platform whose templates lie in a folder and carry no .textfsm suffix
PlatS == <<"s">>
TplS == <<"a", "/", "t">>
TplU == <<"a", "_", "t">>
FolderedCatalog == << <<<<"a">>, TplS>>, <<<<"b">>, TplU>> >>
BatchMappings ==
    {[x \in {PlatP, PlatS} |-> IF x = PlatP THEN BatchCatalog ELSE FolderedCatalog]}
BatchPlatforms == {PlatP, PlatQ, PlatR, PlatS}
BatchTemplates == {TplA, TplF, TplS, TplU}
BatchCommands == {<<>>, <<"a">>, <<"b">>, <<"x">>}
BatchModes == {<<>>, PER_FILE, COMBINED, <<" ", "C">> \o Tail(COMBINED), <<"x">>}

Upload(name, size, onA, onF) ==
    [filename |-> name, size |-> size,
     eng |-> [t \in BatchTemplates |-> IF t \in {TplA, TplS} THEN onA ELSE onF]]

UploadPool ==
    { Upload(<<"a", "_", "h">> \o TXT, 0,
             EngineRows(<<HdrB, HdrA>>, 1), EngineRaises),
      Upload(<<"a", "_", "_", "H">> \o TXT, MaxInputSize,
             EngineRows(<<HdrC>>, 1), EngineRows(<<HdrA>>, 0)),
      Upload(<<"b", "_", "h">> \o TXT, 0,
             EngineRaises, EngineRows(<<HdrHost, HdrC>>, 2)),
      Upload(<<"a", "_", "h">> \o TXT, MaxInputSize + 1,
             EngineRows(<<HdrB, HdrA>>, 1), EngineRaises),
      Upload(<<>>, 0,
             EngineMissing, EngineRows(<<HdrA, HdrB>>, 0)),
      Upload(<<"a">> \o TXT, 0,
             EngineRows(<<HdrA, HdrA>>, 2), EngineRows(<<HdrB>>, 2)) }

InitBatch ==
    /\ pc = "batch"
    /\ aliases = FolderAliases
    /\ mapping \in BatchMappings
    /\ platform \in BatchPlatforms
    /\ command \in BatchCommands
    /\ autodetect \in BOOLEAN
    /\ batch_mode \in BatchModes
    /\ uploads \in SeqsUpTo(UploadPool, MaxUploads)
    /\ up = 1
    /\ combined = <<>>
    /\ summary = <<>>
    /\ zip = <<>>
    /\ outputs = <<>>
    /\ filename = <<>>
    /\ result = NoResult
    /\ request = NoRequest
    /\ response = NoResponse
    /\ AutoIdle
    /\ resolved_platform = <<>>
    /\ platform_map = <<>>
    /\ stem = <<>>
    /\ cmd_prefixes = <<>>
    /\ split = NoSplit
    /\ FolderIdle

batchLocals == <<platform_map, resolved_platform, cliVars, configVars, platform, command,
                 engine, max_templates, it, tried, best, request, filename, uploads,
                 autodetect, batch_mode>>

\* the request passed `if not files` and the batch_mode check
Accepted == uploads # <<>> /\ BatchMode(batch_mode) \in {PER_FILE, COMBINED}

\* raise HTTPException(status_code=400, ...) before any file is read
RejectBatch ==
    /\ pc = "batch"
    /\ ~Accepted
    /\ response' = IF uploads = <<>> THEN NoFilesUploaded ELSE BadBatchMode
    /\ pc' = "responded"
    /\ UNCHANGED <<batchLocals, calls, result, up, combined, summary, zip, outputs>>

\* the loop is at an upload
AtUpload == pc = "batch" /\ Accepted /\ up <= Len(uploads)

\* if len(raw_bytes) > 2_000_000: summary.append(...); continue
UploadTooLarge ==
    /\ AtUpload
    /\ TooLarge(uploads[up].size)
    /\ summary' = Append(summary, FailedEntry(uploads[up], FileTooLargeError))
    /\ up' = up + 1
    /\ UNCHANGED <<pc, batchLocals, calls, result, response, combined, zip, outputs>>

\* except Exception as e: summary.append({..., "ok": False, "error": str(e)})
UploadFailsMut ==
    /\ AtUpload
    /\ ~TooLarge(uploads[up].size)
    /\ calls' = calls \o UploadCalls(mapping, aliases, platform, command, autodetect,
                                     uploads[up], up)
    /\ LET parsed == ParseUpload(mapping, aliases, platform, command, autodetect,
                                 uploads[up])
       IN /\ ~parsed.ok
          /\ result' = parsed
          /\ summary' = Append(summary, FailedEntry(uploads[up], StrOfException(parsed)))
    /\ up' = Len(uploads) + 1
    /\ UNCHANGED <<pc, batchLocals, response, combined, zip, outputs>>

UploadFails ==
    /\ AtUpload
    /\ ~TooLarge(uploads[up].size)
    /\ calls' = calls \o UploadCalls(mapping, aliases, platform, command, autodetect,
                                     uploads[up], up)
    /\ LET parsed == ParseUpload(mapping, aliases, platform, command, autodetect,
                                 uploads[up])
       IN /\ ~parsed.ok
          /\ result' = parsed
          /\ summary' = Append(summary, FailedEntry(uploads[up], StrOfException(parsed)))
    /\ up' = up + 1
    /\ UNCHANGED <<pc, batchLocals, response, combined, zip, outputs>>

\* per_file mode: the upload's own CSV goes to the archive
UploadPerFile ==
    /\ AtUpload
    /\ BatchMode(batch_mode) = PER_FILE
    /\ ~TooLarge(uploads[up].size)
    /\ calls' = calls \o UploadCalls(mapping, aliases, platform, command, autodetect,
                                     uploads[up], up)
    /\ LET parsed == ParseUpload(mapping, aliases, platform, command, autodetect,
                                 uploads[up])
           headers == HostnameFirst(Dedupe(parsed.value.headers))
           csv == rows_to_csv(headers, parsed.value.rows)
           out_name == PerFileOutName(uploads[up])
       IN /\ parsed.ok
          /\ result' = parsed
          /\ IF csv.raised
             THEN /\ summary' = Append(summary,
                                       FailedEntry(uploads[up], StrOfException(CsvError)))
                  /\ zip' = zip
             ELSE /\ summary' = Append(summary,
                                       OkEntry(uploads[up], <<>>, parsed.value,
                                               Len(parsed.value.rows), out_name))
                  /\ zip' = Append(zip, [name |-> out_name, csv |-> csv])
    /\ up' = up + 1
    /\ UNCHANGED <<pc, batchLocals, response, combined, outputs>>

\* combined mode: the upload's headers and rows go to its group
UploadCombined ==
    /\ AtUpload
    /\ BatchMode(batch_mode) = COMBINED
    /\ ~TooLarge(uploads[up].size)
    /\ calls' = calls \o UploadCalls(mapping, aliases, platform, command, autodetect,
                                     uploads[up], up)
    /\ LET parsed == ParseUpload(mapping, aliases, platform, command, autodetect,
                                 uploads[up])
           name == IF uploads[up].filename = <<>> THEN UNKNOWN ELSE uploads[up].filename
           host == infer_hostname_after_command(name, parsed.value.command)
       IN /\ parsed.ok
          /\ result' = parsed
          /\ combined' = CombineOne(combined, parsed.value, host)
          /\ summary' = Append(summary,
                               OkEntry(uploads[up], host, parsed.value,
                                       Len(parsed.value.rows), <<>>))
    /\ up' = up + 1
    /\ UNCHANGED <<pc, batchLocals, response, zip, outputs>>

\* per_file mode, after the loop: summary.json is written, the archive sent
SendPerFile ==
    /\ pc = "batch"
    /\ Accepted
    /\ up > Len(uploads)
    /\ BatchMode(batch_mode) = PER_FILE
    /\ response' = HttpOk("per_file_csvs.zip")
    /\ pc' = "responded"
    /\ UNCHANGED <<batchLocals, calls, result, up, combined, summary, zip, outputs>>

\* combined mode, after the loop: one CSV per group of combined, in the
\* order of combined.items(), then summary.json and outputs.json
SendCombined ==
    /\ pc = "batch"
    /\ Accepted
    /\ up > Len(uploads)
    /\ BatchMode(batch_mode) = COMBINED
    /\ LET member(g) ==
             [name |-> CombinedOutName(combined[g][1][1], combined[g][1][2]),
              csv |-> rows_to_csv(CombinedHeaders(combined[g][2]), combined[g][2].rows)]
           written_csvs == [g \in 1..Len(combined) |-> member(g)]
       IN /\ zip' = written_csvs
          /\ outputs' = [g \in 1..Len(combined) |->
                           [template |-> combined[g][1][2],
                            platform_resolved |-> combined[g][1][1],
                            out |-> written_csvs[g].name,
                            rows |-> Len(combined[g][2].rows)]]
          /\ response' = IF \E g \in 1..Len(combined) : written_csvs[g].csv.raised
                         THEN HttpError(500, <<>>)
                         ELSE HttpOk("combined_csvs.zip")
    /\ pc' = "responded"
    /\ UNCHANGED <<batchLocals, calls, result, up, combined, summary>>

NextBatch ==
    \/ RejectBatch
    \/ UploadTooLarge
    \/ UploadFails
    \/ UploadPerFile
    \/ UploadCombined
    \/ SendPerFile
    \/ SendCombined

SpecBatch == InitBatch /\ [][NextBatch]_vars

----------------------------------------------------------------------------
(* The three handlers that take raw text: /api/parse, /api/autodetect and *)
(* /api/batch_parse                                                       *)

InitSize == InitApi \/ InitBatch

NextSize == NextApi \/ NextBatch

SpecSize == InitSize /\ [][NextSize]_vars

----------------------------------------------------------------------------
(* The filename decomposer's properties, under SpecSplit *)

StrictPrefix(p, q) == Len(p) < Len(q) /\ SubSeq(q, 1, Len(p)) = p

\* the stem is <prefix>_<hostname> for the prefix of entry e of cmd_prefixes
BuiltFrom(e) == StartsWith(stem, e[1] \o <<"_">>)

\* entry e of cmd_prefixes is the only candidate of its length or longer:
\* no longer prefix of the catalog matches the stem, and no key that comes
\* earlier in the catalog has the same prefix
OnlyCandidate(e) ==
    /\ \A z \in Range(cmd_prefixes) :
         Len(z[1]) > Len(e[1]) => ~StartsWith(Lower(stem), z[1] \o <<"_">>)
    /\ \A i, j \in 1..Len(platform_map) :
         (platform_map[j][1] = e[2] /\ i < j)
           => \A z \in Range(cmd_prefixes) :
                z[2] = platform_map[i][1] => z[1] # e[1]

\* C1 as claimed: whenever the prefix of a command C1 is a strict prefix of
\* the prefix of a command C2, a stem <C2 prefix>_<hostname> is split into
\* C2's prefix and C2's original key.
C1_ReturnsC2 ==
    pc = "split" =>
      \A e1, e2 \in Range(cmd_prefixes) :
        (StrictPrefix(e1[1], e2[1]) /\ BuiltFrom(e2))
          => /\ split.matched
             /\ split.cmd_prefix = e2[1]
             /\ split.orig_key = e2[2]

\* C1 as amended: such a stem is always matched and never resolves to C1; the
\* matched prefix is C2's or a longer prefix of the catalog that starts with
\* C2's and also matches the stem; the result is C2's prefix, the hostname
\* and C2's key whenever no longer prefix of the catalog matches the stem and
\* no earlier key of the catalog has the same prefix as C2.
C1_NeverC1 ==
    pc = "split" =>
      \A e1, e2 \in Range(cmd_prefixes) :
        (StrictPrefix(e1[1], e2[1]) /\ BuiltFrom(e2))
          => /\ split.matched
             /\ split.orig_key # e1[2]
             /\ split.cmd_prefix # e1[1]
             /\ StartsWith(split.cmd_prefix, e2[1])
             /\ OnlyCandidate(e2)
                  => /\ split.cmd_prefix = e2[1]
                     /\ split.orig_key = e2[2]
                     /\ e2[1] \o <<"_">> \o split.hostname = stem

\* a stem built from C2 was split while the catalog holds a command C1 whose
\* prefix is a strict prefix of C2's, and the split returned C2
C1_Witness ==
    /\ pc = "split"
    /\ \E e1, e2 \in Range(cmd_prefixes) :
         /\ StrictPrefix(e1[1], e2[1])
         /\ e1[1] # <<>>
         /\ BuiltFrom(e2)
         /\ split.matched
         /\ split.orig_key = e2[2]
         /\ split.hostname # <<>>

----------------------------------------------------------------------------
(* The folder batch's properties, under SpecFolder *)

\* no prefix p of the list has lower(stem) start with p + "_"
NoPrefixMatches(st, prefixes) ==
    \A e \in Range(prefixes) : ~StartsWith(Lower(st), e[1] \o <<"_">>)

\* C3: a stem that no prefix matches is split into None without an error, the
\* batch skips the file (no rows, no output, no exception) and goes on with
\* the next file; when the folder's outputs are written every file of the
\* folder has been visited.
C3_SkipAndContinue ==
    /\ [][(AtFile /\ NoPrefixMatches(NextStem, cmd_prefixes))
            => /\ split' = NoSplit
               /\ idx' = idx + 1
               /\ pc' = "files"
               /\ per_cmd' = per_cmd
               /\ files' = files
               /\ written' = written]_vars
    /\ [][(pc = "files" /\ pc' # "files") => (idx = Len(files) + 1 /\ pc' = "dirs")]_vars

\* the folder's first file matched no prefix and rows of a later file of the
\* folder were collected
C3_Witness ==
    /\ pc = "files"
    /\ idx = 3
    /\ NoPrefixMatches(PathStem(files[1]), cmd_prefixes)
    /\ split.matched
    /\ per_cmd # <<>>

\* every key of every record
AllKeys(rows) == UNION {Range(DictKeys(rows[i])) : i \in 1..Len(rows)}

\* the keys of the records one after the other
RECURSIVE KeysInOrder(_)
KeysInOrder(rows) ==
    IF rows = <<>> THEN <<>> ELSE DictKeys(Head(rows)) \o KeysInOrder(Tail(rows))

FirstOccurrence(seq, k) == CHOOSE i \in 1..Len(seq) : seq[i] = k /\ \A j \in 1..(i - 1) : seq[j] # k

\* the column list is "hostname", then every other key of the records once,
\* in order of first occurrence
FirstSeenColumns(fieldnames, rows) ==
    /\ fieldnames # <<>>
    /\ fieldnames[1] = HOSTNAME
    /\ Range(Tail(fieldnames)) = AllKeys(rows) \ {HOSTNAME}
    /\ NoDup(fieldnames)
    /\ \A a, b \in 2..Len(fieldnames) :
         a < b => FirstOccurrence(KeysInOrder(rows), fieldnames[a])
                    < FirstOccurrence(KeysInOrder(rows), fieldnames[b])

\* C6: every CSV file of the folder batch has the columns "hostname" followed
\* by every other key of its records, each once, in order of first
\* occurrence; its records are the group's records, and a record that lacks
\* a column raises nothing.
C6_FirstSeenColumns ==
    /\ pc # "raised"
    /\ \A i \in 1..Len(csv_out) :
         /\ FirstSeenColumns(csv_out[i].csv.fieldnames, csv_out[i].csv.rows)
         /\ ~csv_out[i].csv.raised
         /\ \E j \in 1..Len(per_cmd) : csv_out[i].csv.rows = per_cmd[j][2]

\* a CSV file was written whose records come from two files with different
\* columns: three discovered columns, and a record that lacks one of them
C6_Witness ==
    \E i \in 1..Len(csv_out) :
      /\ Len(csv_out[i].csv.fieldnames) = 4
      /\ \E r \in Range(csv_out[i].csv.rows) :
           Range(DictKeys(r)) # Range(csv_out[i].csv.fieldnames)

----------------------------------------------------------------------------
(* autodetect_command's properties, under SpecAuto *)

\* entry i of the catalog is examined before the loop's cap is reached
Attempted(i) == i \in 1..Len(platform_map) /\ i <= max_templates

\* the engine's outcome for entry i
OutcomeOf(i) == engine[platform_map[i][2]]

\* entry i is attempted and yields at least one row
Productive(i) == Attempted(i) /\ OutcomeOf(i).kind = "rows" /\ OutcomeOf(i).nrows >= 1

RowCount(i) == OutcomeOf(i).nrows
ColumnCount(i) == Len(OutcomeOf(i).headers)

\* (rowCount, columnCount) of entry i is lexicographically below that of entry j
ScoreBelow(i, j) ==
    \/ RowCount(i) < RowCount(j)
    \/ RowCount(i) = RowCount(j) /\ ColumnCount(i) < ColumnCount(j)

\* C4: the returned candidate is an attempted entry that produced rows, no
\* such entry has a greater (rowCount, columnCount), and every such entry
\* that comes earlier in the catalog has a strictly smaller one.
C4_FirstMaximum ==
    pc = "returned" =>
      \E j \in 1..Len(platform_map) :
        /\ Productive(j)
        /\ result = Returned([found |-> TRUE,
                              command |-> platform_map[j][1],
                              template |-> platform_map[j][2],
                              rows |-> RowCount(j),
                              cols |-> ColumnCount(j)])
        /\ \A k \in 1..Len(platform_map) : Productive(k) => ~ScoreBelow(j, k)
        /\ \A k \in 1..(j - 1) : Productive(k) => ScoreBelow(k, j)

\* two entries reach the same maximum, a third one a smaller score, and the
\* earlier of the two was returned
C4_Witness ==
    /\ pc = "returned"
    /\ \E i, j, k \in 1..Len(platform_map) :
         /\ Productive(i) /\ Productive(j) /\ Productive(k)
         /\ i < j /\ j < k
         /\ ScoreBelow(i, j)
         /\ ~ScoreBelow(j, k) /\ ~ScoreBelow(k, j)
         /\ result.value.command = platform_map[j][1]

Min(a, b) == IF a <= b THEN a ELSE b

\* the templates of the attempted entries whose file exists, in catalog order
RECURSIVE ExpectedCalls(_)
ExpectedCalls(n) ==
    IF n = 0 THEN <<>>
    ELSE ExpectedCalls(n - 1)
           \o (IF OutcomeOf(n).kind = "missing" THEN <<>> ELSE <<platform_map[n][2]>>)

\* C5: for a platform with a catalog, the call raises NoMatch exactly when no
\* attempted entry yields a row and returns a candidate otherwise; entries
\* whose template is missing, whose engine call raises or whose result is
\* empty are skipped: every entry up to the cap is tried, and the engine is
\* called on each of them whose template exists.
C5_NoMatchIffNoRows ==
    (pc \in {"returned", "raised"} /\ platform_map # <<>>) =>
      /\ result = NoMatch(resolved_platform) <=> ~\E i \in 1..Len(platform_map) : Productive(i)
      /\ result.ok <=> \E i \in 1..Len(platform_map) : Productive(i)
      /\ result.ok \/ result = NoMatch(resolved_platform)
      /\ tried = Min(Len(platform_map), max_templates)
      /\ calls = ExpectedCalls(Min(Len(platform_map), max_templates))

\* a catalog whose three attempted entries are a missing template, a raising
\* engine call and an empty result: all three were tried, NoMatch was raised
C5_Witness ==
    /\ pc = "raised"
    /\ Len(platform_map) = 3
    /\ tried = 3
    /\ \E i, j, k \in 1..3 :
         /\ OutcomeOf(i).kind = "raises" /\ i < 3
         /\ OutcomeOf(j).kind = "missing"
         /\ OutcomeOf(k).kind = "rows" /\ OutcomeOf(k).nrows = 0
    /\ result = NoMatch(resolved_platform)

----------------------------------------------------------------------------
(* The alias resolver's properties, under SpecResolve *)

\* C9 as claimed: for every alias table and every raw key, resolving the
\* resolved key again returns it unchanged, and a key without an alias entry
\* resolves to itself.
C9_Idempotent ==
    /\ [][(pc = "resolved" /\ pc' = "again") => resolved_platform' = resolved_platform]_vars
    /\ [][(pc = "call" /\ pc' = "resolved" /\ platform \notin DOMAIN aliases)
            => resolved_platform' = platform]_vars

\* the resolved key has no alias entry of its own, or is aliased to itself
Canonical(key) == key \notin DOMAIN aliases \/ aliases[key] = key

\* C9 as amended: a key with an alias entry resolves to that entry and a key
\* without one to itself; resolving the resolved key again returns it
\* unchanged whenever the resolved key is canonical (it has no alias entry of
\* its own, or is aliased to itself), which is every key when no alias
\* target is itself aliased to another key.
C9_IdempotentOnCanonical ==
    /\ [][(pc = "resolved" /\ pc' = "again" /\ Canonical(resolved_platform))
            => resolved_platform' = resolved_platform]_vars
    /\ [][(pc = "call" /\ pc' = "resolved")
            => /\ platform \notin DOMAIN aliases => resolved_platform' = platform
               /\ platform \in DOMAIN aliases => resolved_platform' = aliases[platform]]_vars

\* an aliased key was resolved to a canonical key different from it, and the
\* canonical key was resolved again
C9_Witness ==
    /\ pc = "again"
    /\ aliases # <<>>
    /\ platform \notin DOMAIN aliases
    /\ \E raw \in DOMAIN aliases : raw # platform /\ aliases[raw] = platform
    /\ resolved_platform = platform

----------------------------------------------------------------------------
(* resolve_template_name's properties, under SpecApi *)

ResolvedOf(raw) == ResolveAlias(aliases, raw)
NoCatalog(raw) == CatalogOf(mapping, ResolvedOf(raw)) = <<>>
KnownCommand(raw, cmd) == cmd \in Range(DictKeys(CatalogOf(mapping, ResolvedOf(raw))))

\* when the call fails, when it returns, and what it returns
ResolveOutcome ==
    /\ NoCatalog(platform) => result = UnknownPlatform(ResolvedOf(platform), platform)
    /\ (~NoCatalog(platform) /\ ~KnownCommand(platform, command))
         => result = UnknownCommand(command, ResolvedOf(platform))
    /\ (~NoCatalog(platform) /\ KnownCommand(platform, command))
         => /\ result.ok
            /\ <<command, result.value>> \in Range(CatalogOf(mapping, ResolvedOf(platform)))

PassedOn ==
    (pc = "responded" /\ ~request.autodetect /\ command # <<>>
       /\ request.text_len <= MaxInputSize
       /\ ~resolve_template_name(mapping, platform, command, aliases).ok)
      => response = HttpError(400, StrOfException(
                       resolve_template_name(mapping, platform, command, aliases)))

----------------------------------------------------------------------------
(* The hostname inference's properties, under SpecHost *)

TheStem == StemOrName(filename)
TheSlug == command_to_slug(command)

\* the text behind the last occurrence of sep in s
AfterLast(s, sep) ==
    LET at == {i \in 1..(Len(s) - Len(sep) + 1) : SubSeq(s, i, i + Len(sep) - 1) = sep}
        last == CHOOSE i \in at : \A j \in at : j <= i
    IN DropFirst(s, last + Len(sep) - 1)

\* the fallback as C8 words it: the text after the last "__" if there is one,
\* else the last "_"-delimited token, else the whole stem (an empty text
\* counts as none)
ClaimedFallback(s) ==
    IF Contains(s, UNDERSCORES) /\ AfterLast(s, UNDERSCORES) # <<>>
    THEN AfterLast(s, UNDERSCORES)
    ELSE IF Contains(s, <<"_">>) /\ AfterLast(s, <<"_">>) # <<>>
         THEN AfterLast(s, <<"_">>)
         ELSE s

LeadingUnderscores(s) ==
    CHOOSE k \in 0..Len(s) :
      /\ \A i \in 1..k : s[i] = "_"
      /\ k = Len(s) \/ s[k + 1] # "_"

\* the "_" at position i ends an even number of consecutive "_"
EvenRunUpTo(s, i) ==
    \E j \in 1..i :
      /\ \A m \in j..i : s[m] = "_"
      /\ j = 1 \/ s[j - 1] # "_"
      /\ (i - j + 1) % 2 = 0

\* v is what infer_hostname makes of the stem s: with a "__" in s, the piece
\* behind the last "__" that str.split cuts (it cuts from the left, so the
\* "_" before the piece come in an even number and an odd one out heads the
\* piece), or s when that piece is empty; else the text behind the last "_"
\* unless there is no "_" or nothing behind it, and then s
IsFallback(s, v) ==
    IF Contains(s, UNDERSCORES)
    THEN \E i \in 2..Len(s) :
           /\ s[i] = "_"
           /\ EvenRunUpTo(s, i)
           /\ ~Contains(DropFirst(s, i), UNDERSCORES)
           /\ v = IF DropFirst(s, i) # <<>> THEN DropFirst(s, i) ELSE s
    ELSE IF Contains(s, <<"_">>) /\ AfterLast(s, <<"_">>) # <<>>
         THEN v = AfterLast(s, <<"_">>)
         ELSE v = s

\* the stem starts with the non-empty slug and more than "_" follows it
SlugMatches ==
    /\ TheSlug # <<>>
    /\ StartsWith(Lower(TheStem), TheSlug)
    /\ LeadingUnderscores(DropFirst(TheStem, Len(TheSlug))) < Len(TheStem) - Len(TheSlug)

----------------------------------------------------------------------------
(* The combined mode's properties, under SpecBatch *)

\* the request was answered in combined mode
CombinedSent == pc = "responded" /\ Accepted /\ BatchMode(batch_mode) = COMBINED

\* the uploads that went into the group of template tpl
Contributors(tpl) ==
    {i \in 1..Len(uploads) : summary[i].ok /\ summary[i].template = tpl}

\* the headers the engine's template tpl had for upload i, lower-cased
ObservedIn(i, tpl) == {Lower(h) : h \in Range(uploads[i].eng[tpl].headers)}

\* cols is "hostname" and then the members of S other than "hostname", each
\* once, every one before the ones greater than it
HostnameThenSorted(cols, S) ==
    /\ cols # <<>>
    /\ cols[1] = HOSTNAME
    /\ {cols[i] : i \in 2..Len(cols)} = S \ {HOSTNAME}
    /\ \A i, j \in 2..Len(cols) : i < j => LessStr(cols[i], cols[j])

\* combined after the loop went through the uploads seq in their order
RECURSIVE CombineAll(_, _)
CombineAll(groups, seq) ==
    IF seq = <<>> THEN groups
    ELSE LET parsed == ParseUpload(mapping, aliases, platform, command, autodetect,
                                   Head(seq))
             name == IF Head(seq).filename = <<>> THEN UNKNOWN ELSE Head(seq).filename
             host == infer_hostname_after_command(name, parsed.value.command)
         IN CombineAll(IF Head(seq).size <= MaxInputSize /\ parsed.ok
                       THEN CombineOne(groups, parsed.value, host)
                       ELSE groups,
                       Tail(seq))

\* the column list of every group of combined
ColumnLists(groups) ==
    {<<groups[g][1], CombinedHeaders(groups[g][2])>> : g \in 1..Len(groups)}

\* the orders the uploads of the request could have come in
UploadOrders ==
    {f \in [1..Len(uploads) -> 1..Len(uploads)] :
       \A i, j \in 1..Len(uploads) : f[i] = f[j] => i = j}

\* C7: in combined mode every upload that parsed has its group's CSV, and the
\* columns of every group's CSV are "hostname" (once, also when a template
\* has a header of that name) and then the headers that the uploads of the
\* group had, each once and in ascending order; the same uploads in any other
\* order give every group the same column list.
C7_SortedUnion ==
    CombinedSent =>
      /\ Len(zip) = Len(outputs)
      /\ \A i \in 1..Len(uploads) :
           summary[i].ok => \E g \in 1..Len(outputs) : outputs[g].template = summary[i].template
      /\ \A g \in 1..Len(outputs) :
           /\ Contributors(outputs[g].template) # {}
           /\ HostnameThenSorted(zip[g].csv.fieldnames,
                                 UNION {ObservedIn(i, outputs[g].template) :
                                          i \in Contributors(outputs[g].template)})
      /\ \A f \in UploadOrders :
           ColumnLists(CombineAll(<<>>, [i \in 1..Len(uploads) |-> uploads[f[i]]]))
             = {<<<<outputs[g].platform_resolved, outputs[g].template>>,
                  zip[g].csv.fieldnames>> : g \in 1..Len(outputs)}

\* a group of two uploads was written whose headers are not the same, the
\* first upload's not in ascending order
C7_Witness ==
    /\ CombinedSent
    /\ \E g \in 1..Len(outputs) :
         /\ zip[g].csv.fieldnames = <<HOSTNAME, <<"a">>, <<"b">>, <<"c">> >>
         /\ \E i, j \in Contributors(outputs[g].template) :
              /\ i < j
              /\ ObservedIn(i, outputs[g].template) # ObservedIn(j, outputs[g].template)
              /\ uploads[i].eng[outputs[g].template].headers = <<HdrB, HdrA>>

----------------------------------------------------------------------------
(* The size ceiling's properties, under SpecSize *)

\* /api/parse or /api/autodetect answered the request
TextAnswered == pc \in {"responded", "autodetected"} /\ uploads = <<>> /\ batch_mode = <<>>

\* the batch loop is at upload i and goes on to the next one
LoopPasses(i) == pc = "batch" /\ Accepted /\ up = i /\ i <= Len(uploads) /\ up' = i + 1

\* what the handlers hold in every state: a text over the ceiling is answered
\* 413 with no engine call made, a text up to the ceiling is never answered
\* 413; no engine call of a batch is on an upload over the ceiling, and the
\* summary entry of such an upload is the failed one
SizeCheckedFirst ==
    /\ (TextAnswered /\ request.text_len > MaxInputSize) =>
          response = InputTooLarge /\ calls = <<>> /\ response.status = 413
    /\ (TextAnswered /\ request.text_len <= MaxInputSize) => response.status # 413
    /\ uploads # <<>> =>
         /\ \A c \in 1..Len(calls) : uploads[calls[c][1]].size <= MaxInputSize
         /\ \A i \in 1..Len(summary) :
              uploads[i].size > MaxInputSize =>
                /\ ~summary[i].ok
                /\ summary[i].error.fmt = "Input too large (max 2MB per file)."

\* what the batch loop does with an upload over the ceiling: a failed entry
\* and nothing else
OversizedStep ==
    \A i \in 1..Len(uploads) :
      (LoopPasses(i) /\ uploads[i].size > MaxInputSize) =>
        /\ summary' = Append(summary, FailedEntry(uploads[i], FileTooLargeError))
        /\ calls' = calls
        /\ combined' = combined
        /\ zip' = zip
        /\ outputs' = outputs

\* C11: an input of more than 2,000,000 is turned down before the engine is
\* called on it: /api/parse and /api/autodetect answer 413 with no engine
\* call made, and the batch loop gives the upload a failed summary entry and
\* leaves the engine calls, the groups and the archive as they were.
C11_RejectedBeforeParsing == []SizeCheckedFirst /\ [][OversizedStep]_vars

\* a combined batch was answered whose first upload was over the ceiling and
\* whose second upload went into a group
C11_Witness ==
    /\ CombinedSent
    /\ Len(uploads) = 2
    /\ uploads[1].size = MaxInputSize + 1
    /\ summary[2].ok
    /\ Len(combined) = 1
    /\ \A c \in 1..Len(calls) : calls[c][1] = 2
    /\ calls # <<>>

----------------------------------------------------------------------------
(* The batch summary's properties, under SpecBatch *)

\* what the try block makes of upload i, whatever came before it
OutcomeOfUpload(i) ==
    ParseUpload(mapping, aliases, platform, command, autodetect, uploads[i])

\* entry is the one summary entry of upload i
IsEntryOf(entry, i) ==
    /\ entry.file = uploads[i].filename
    /\ IF uploads[i].size > MaxInputSize
       THEN ~entry.ok /\ entry.error = FileTooLargeError
       ELSE IF ~OutcomeOfUpload(i).ok
       THEN ~entry.ok /\ entry.error = StrOfException(OutcomeOfUpload(i))
                      /\ entry.error.fmt # ""
       ELSE /\ entry.ok
            /\ entry.command = OutcomeOfUpload(i).value.command
            /\ entry.template = OutcomeOfUpload(i).value.template
            /\ entry.rows = Len(OutcomeOfUpload(i).value.rows)

\* C12: in per_file and in combined mode the summary holds one entry for
\* every upload the loop is through with, in upload order; the entry is ok
\* with the upload's command, template and row count, or failed with the
\* reason, and is what the upload alone makes it, so no failure before it
\* changes it; when the request is answered every upload has its entry.
C12_OneEntryEach ==
    Accepted =>
      /\ Len(summary) = IF pc = "batch" THEN up - 1 ELSE Len(uploads)
      /\ \A i \in 1..Len(summary) : IsEntryOf(summary[i], i)

\* a batch was answered whose first upload failed in the engine and whose
\* second upload was parsed
C12_Witness ==
    /\ pc = "responded"
    /\ Accepted
    /\ Len(summary) = 2
    /\ ~summary[1].ok
    /\ uploads[1].size <= MaxInputSize
    /\ OutcomeOfUpload(1).exc = "Exception"
    /\ summary[2].ok
    /\ summary[2].rows > 0

----------------------------------------------------------------------------
(* The combined CSVs' names, under SpecBatch *)

\* C13: in combined mode no two groups of a batch are written under the same
\* name.
C13_UniqueNames ==
    CombinedSent =>
      \A g, h \in 1..Len(zip) :
        (g # h /\ combined[g][1] # combined[h][1]) => zip[g].name # zip[h].name

----------------------------------------------------------------------------
(* The attempt cap's properties, under SpecAuto *)

\* autodetect_command is in its loop, behind it, or through
InAutodetect == pc \in {"loop", "after", "returned", "raised"} /\ platform_map # <<>>

\* C14: the entries examined so far are the first `tried` of the catalog, in
\* its order, and never more than max_templates; each of them counts,
\* whatever the engine made of it; the engine was called on those of them
\* whose template exists, so on at most max_templates; the best candidate so
\* far is one of them; the loop ends only at the cap or at the end of the
\* catalog, and with a cap of 0 the call raises NoMatch with no engine call.
C14_CappedInOrder ==
    InAutodetect =>
      /\ tried <= max_templates
      /\ tried <= Len(platform_map)
      /\ it = tried + 1
      /\ calls = ExpectedCalls(tried)
      /\ Len(calls) <= max_templates
      /\ best.found =>
           \E k \in 1..tried :
             /\ best.command = platform_map[k][1]
             /\ best.template = platform_map[k][2]
             /\ OutcomeOf(k).kind = "rows"
      /\ pc # "loop" => tried = Min(Len(platform_map), max_templates)
      /\ pc = "returned" => result = Returned(best) /\ best.found
      /\ (pc \in {"returned", "raised"} /\ max_templates = 0) =>
           result = NoMatch(resolved_platform) /\ calls = <<>>

\* under a cap of 2 the first entry's engine call raised, the second entry
\* was returned, and a third entry with more rows was never examined
C14_Witness ==
    /\ pc = "returned"
    /\ max_templates = 2
    /\ Len(platform_map) = 3
    /\ OutcomeOf(1).kind = "raises"
    /\ result.value.command = platform_map[2][1]
    /\ OutcomeOf(3).kind = "rows"
    /\ OutcomeOf(3).nrows > OutcomeOf(2).nrows
    /\ Len(calls) = 2

----------------------------------------------------------------------------
(* build_command_prefixes' properties, under SpecSplit *)

\* cmd_prefixes was built from the catalog
PrefixesBuilt == pc \in {"built", "split"}

\* where the catalog has the key k
KeyPos(k) == CHOOSE i \in 1..Len(platform_map) : platform_map[i][1] = k

\* cmd_prefixes holds one pair per key of the catalog, the longer prefixes
\* first, prefixes of one length in the order of their keys in the catalog
OnePairPerKeyLongestFirst ==
    /\ Len(cmd_prefixes) = Len(platform_map)
    /\ {cmd_prefixes[i][2] : i \in 1..Len(cmd_prefixes)}
         = {platform_map[i][1] : i \in 1..Len(platform_map)}
    /\ \A i, j \in 1..Len(cmd_prefixes) :
         i < j =>
           /\ Len(cmd_prefixes[i][1]) >= Len(cmd_prefixes[j][1])
           /\ Len(cmd_prefixes[i][1]) = Len(cmd_prefixes[j][1])
                => KeyPos(cmd_prefixes[i][2]) < KeyPos(cmd_prefixes[j][2])

\* C15 as claimed: the prefix of a key is the key in lower case with every
\* run of whitespace replaced by one "_"; one pair per key, sorted by
\* descending prefix length, equal lengths in the catalog's order.
C15_WhitespaceRuns ==
    PrefixesBuilt =>
      /\ OnePairPerKeyLongestFirst
      /\ \A i \in 1..Len(cmd_prefixes) :
           LET key == cmd_prefixes[i][2]
           IN (key # <<>> /\ ~IsSpace(key[1]) /\ ~IsSpace(key[Len(key)]))
                => cmd_prefixes[i][1] = JoinUnderscore(Words(Lower(key)))

\* the key k without the whitespace at its two ends
Trimmed(k) ==
    LET inner == {i \in 1..Len(k) : ~IsSpace(k[i])}
    IN IF inner = {} THEN <<>>
       ELSE SubSeq(k, CHOOSE i \in inner : \A j \in inner : i <= j,
                      CHOOSE i \in inner : \A j \in inner : j <= i)

\* C15 as amended: the prefix of a key is the key without the whitespace at
\* its two ends, in lower case, with every space replaced by a "_" of its
\* own, so that it is as long as the trimmed key; one pair per key, sorted
\* by descending prefix length, equal lengths in the catalog's order.
C15_EverySpace ==
    PrefixesBuilt =>
      /\ OnePairPerKeyLongestFirst
      /\ \A i \in 1..Len(cmd_prefixes) :
           LET t == Trimmed(cmd_prefixes[i][2])
           IN /\ Len(cmd_prefixes[i][1]) = Len(t)
              /\ \A n \in 1..Len(t) :
                   cmd_prefixes[i][1][n] = IF t[n] = " " THEN "_" ELSE LowerChar(t[n])

\* the prefixes of a catalog were built that holds a key with two spaces in
\* a row, a key of the same prefix length after it and a longer or shorter
\* key before it
C15_Witness ==
    /\ PrefixesBuilt
    /\ Len(cmd_prefixes) = 3
    /\ \E i \in 1..3 : cmd_prefixes[i] = << <<"a", "_", "_", "a">>, <<"a", " ", " ", "a">> >>
    /\ \E i, j \in 1..3 :
         /\ i < j
         /\ Len(cmd_prefixes[i][1]) = Len(cmd_prefixes[j][1])
    /\ cmd_prefixes # [i \in 1..3 |-> <<CommandPrefix(platform_map[i][1]), platform_map[i][1]>>]

----------------------------------------------------------------------------
(* The groups of the combined mode, under SpecBatch *)

\* the loop of the combined mode is under way or through
Combining == Accepted /\ BatchMode(batch_mode) = COMBINED

\* upload i is through the loop and went into the group of template tpl
WentInto(i, tpl) == i <= Len(summary) /\ summary[i].ok /\ summary[i].template = tpl

\* the rows of the group of tpl after the first n uploads, each as the pair
\* of its upload and its place among the rows the engine made of that upload
RECURSIVE RowsOfFirst(_, _)
RowsOfFirst(n, tpl) ==
    IF n = 0 THEN <<>>
    ELSE RowsOfFirst(n - 1, tpl)
           \o (IF WentInto(n, tpl)
               THEN [r \in 1..uploads[n].eng[tpl].nrows |-> <<n, r>>]
               ELSE <<>>)

\* the name the hostname of upload i is inferred from
NameOf(i) == IF uploads[i].filename = <<>> THEN UNKNOWN ELSE uploads[i].filename

\* row is row r of upload i under tpl, with the hostname of upload i
IsTaggedRow(row, i, r, tpl) ==
    LET headers == uploads[i].eng[tpl].headers
    IN /\ Range(DictKeys(row)) = {Lower(headers[c]) : c \in 1..Len(headers)} \cup {HOSTNAME}
       /\ DictGet(row, HOSTNAME) = infer_hostname_after_command(NameOf(i), summary[i].command)
       /\ DictGet(row, HOSTNAME) = summary[i].hostname
       /\ \A c \in 1..Len(headers) :
            (Lower(headers[c]) # HOSTNAME
               /\ \A c2 \in (c + 1)..Len(headers) : Lower(headers[c2]) # Lower(headers[c]))
              => DictGet(row, Lower(headers[c])) = Cell(r, c)

\* C16: in combined mode, after every number of uploads, every upload that
\* parsed has its group and every group has such an upload; the rows of a
\* group are the rows of the uploads that went into it, whole and in upload
\* order, each row with the hostname of its own upload, and every key of
\* every row is in the group's column set.
C16_WholeFilesInOrder ==
    Combining =>
      /\ \A i \in 1..Len(summary) :
           summary[i].ok => DictHas(combined, <<ResolveAlias(aliases, platform),
                                               summary[i].template>>)
      /\ \A g \in 1..Len(combined) :
           LET tpl == combined[g][1][2]
               rows == combined[g][2].rows
               from == RowsOfFirst(Len(summary), tpl)
           IN /\ combined[g][1][1] = ResolveAlias(aliases, platform)
              /\ \E i \in 1..Len(summary) : WentInto(i, tpl)
              /\ Len(rows) = Len(from)
              /\ \A n \in 1..Len(rows) :
                   /\ IsTaggedRow(rows[n], from[n][1], from[n][2], tpl)
                   /\ Range(DictKeys(rows[n])) \subseteq combined[g][2].headers

\* two uploads with different hostnames went into one group, a row each
C16_Witness ==
    /\ Combining
    /\ Len(summary) = 2
    /\ Len(combined) = 1
    /\ Len(combined[1][2].rows) = 2
    /\ DictGet(combined[1][2].rows[1], HOSTNAME) = summary[1].hostname
    /\ DictGet(combined[1][2].rows[2], HOSTNAME) = summary[2].hostname
    /\ summary[1].hostname # summary[2].hostname

====
